---- MODULE Spec2Model ----
(***************************************************************************)
(* corpXiv: identifier registry (manifest.json), guardrail validation and  *)
(* the two drivers that mint identifiers:                                  *)
(*   - scripts/process_paper.py   process_paper (one submission per run)   *)
(*   - .github/scripts/stamp_pdf.py   main (a batch of repository files)   *)
(* Persistent state is the registry file, the paper index (papers.yml),    *)
(* the sitemap, the landing pages, the README and the PDF files.           *)
(***************************************************************************)
EXTENDS Integers, Sequences, FiniteSets, TLC

\* ------------------------------------------------------------------ bounds
MaxRuns == 2      \* driver runs started in one behaviour
MaxArgs == 2      \* files named on one stamp_pdf.py command line

\* ------------------------------------------------------- program constants
MIN_ABSTRACT_WORDS == 50
MIN_TITLE_LENGTH == 10

\* ------------------------------------------------------------- input sets
\* The documents a caller may submit, and the days of the model's calendar.
Docs == {1}
Days == 0..1
Structs == {"ok", "nopages", "invalid"}
Categories == {"cs"}
\* Repository files papers/<category>/<filename>: the submission keys of
\* stamp_pdf.py (str(path.relative_to('papers'))).
Keys == {[category |-> "cs", filename |-> "a.pdf"],
         [category |-> "cs", filename |-> "b.pdf"]}

None == <<>>

VARIABLES
    now,            \* the wall clock, in days since the first run
    manifestFile,   \* manifest.json on disk
    papersYaml,     \* data/papers.yml on disk (the paper index)
    sitemap,        \* sitemap.xml on disk
    landing,        \* papers/<category>/<slug>/index.html pages
    upload,         \* the PDF at process_paper's filepath
    repoStamps,     \* the distinct stamps on each repository PDF's first page
    readme,         \* repository files listed in README.md
    pc,             \* position of the running driver, "idle" between runs
    manifest,       \* the driver's in-memory registry
    papers,         \* process_paper's in-memory copy of the index
    extraction,     \* process_paper's ExtractionResult
    validation,     \* process_paper's ValidationResult
    category,       \* process_paper's category argument
    minted,         \* (corpxiv_id, date_str, slug) of the running process_paper
    indexBuf,       \* add_to_papers_yaml's list, between open and dump
    todo,           \* stamp_pdf.py: the arguments not yet visited
    calls,          \* stamp_pdf.py: get_corpxiv_id calls of this run, in order
    result,         \* what the last finished run handed to its caller
    runs,           \* number of runs started
    disk0,          \* the persisted state when the last run started
    mintLog         \* every identifier minted so far, in order

vars == <<now, manifestFile, papersYaml, sitemap, landing, upload, repoStamps,
          readme, pc, manifest, papers, extraction, validation, category,
          minted, indexBuf, todo, calls, result, runs, disk0, mintLog>>

disk == <<manifestFile, papersYaml, sitemap, landing, upload, repoStamps, readme>>

mem == <<manifest, papers, extraction, validation, category, minted, indexBuf,
         todo, calls>>

\* --------------------------------------------------------------- the clock
\* datetime.now(): day i of the model's calendar, which crosses a month end.
Today(i) ==
    IF i = 0 THEN [y |-> 2025, m |-> 1, d |-> 31]
    ELSE [y |-> 2025, m |-> 2, d |-> i]

\* now.strftime('%y%m')
strftime_yymm(t) == (t.y % 100) * 100 + t.m

\* f"{yymm}.{seq:05d}v1"
FormatId(yymm, seq) == [yymm |-> yymm, seq |-> seq, version |-> 1]

\* -------------------------------------------------------------- the disk
NoPapers == [k \in {} |-> None]

\* {'next_number': 1, 'papers': {}}
DefaultManifest == [next_number |-> 1, papers |-> NoPapers]

AbsentFile == [st |-> "absent", data |-> DefaultManifest]
\* A file opened for writing and not (or not completely) written: json.load
\* raises on it.
TruncatedFile == [st |-> "truncated", data |-> DefaultManifest]
OkFile(m) == [st |-> "ok", data |-> m]

\* load_manifest's outcome: the parsed file, the default when the file is
\* missing, and an exception (json.load) when it does not parse.
\* load_manifest falling back to the default on a file that does not parse.
load_manifest_never_raises == FALSE

load_manifest_raises == manifestFile.st = "truncated"

load_manifest ==
    IF manifestFile.st = "ok" THEN manifestFile.data ELSE DefaultManifest

\* load_papers_yaml: yaml.safe_load(f) or []; an empty file loads as [].
load_papers_yaml == papersYaml

\* ------------------------------------------------------------- documents
\* A PDF's bytes: which document it is, whether pypdf can open it and finds
\* a page, and the stamps merged onto its first page.
Content(d, st) == [doc |-> d, struct |-> st, stamps |-> <<>>]

NoUpload == [doc |-> 0, struct |-> "invalid", stamps |-> <<>>]

\* hashlib.sha256(f.read()).hexdigest()[:16]: a digest of the whole file,
\* taken to be free of collisions.
get_pdf_hash(c) == <<"sha256", c.doc, c.struct, c.stamps>>

Digit(d) == <<"0", "1", "2", "3", "4", "5", "6", "7", "8", "9">>[(d % 10) + 1]

\* What pypdf and the three text heuristics find in document d.
PdfOf(d) ==
    [meta_title   |-> IF d % 2 = 0
                      THEN <<"O", "n", " ", "T", "o", "p", "i", "c", " ", Digit(d)>>
                      ELSE <<>>,
     meta_author  |-> <<>>,
     text_title   |-> <<"A", " ", "S", "t", "u", "d", "y", ":", " ", "N", "o", Digit(d)>>,
     text_authors |-> IF d % 2 = 1 THEN <<>> ELSE <<"Ada Lovelace">>,
     text_abstract |-> MIN_ABSTRACT_WORDS + d]

EmptyExtraction ==
    [title |-> <<>>, authors |-> <<>>, abstract |-> 0,
     confidence |-> [title |-> "unset", authors |-> "unset", abstract |-> "unset"]]

\* extract_metadata: any exception (unopenable file, no first page) is
\* swallowed and the fields set so far are returned.
extract_metadata(c) ==
    IF c.struct # "ok" THEN EmptyExtraction
    ELSE LET pdf == PdfOf(c.doc)
             fromMetaT == pdf.meta_title # <<>>
             fromMetaA == pdf.meta_author # <<>>
             abs == pdf.text_abstract
         IN [title    |-> IF fromMetaT THEN pdf.meta_title ELSE pdf.text_title,
             authors  |-> IF fromMetaA THEN pdf.meta_author ELSE pdf.text_authors,
             abstract |-> abs,
             confidence |->
                 [title    |-> IF fromMetaT THEN "metadata" ELSE "parsed",
                  authors  |-> IF fromMetaA THEN "metadata" ELSE "parsed",
                  abstract |-> IF abs # 0 THEN "parsed" ELSE "not_found"]]

\* process_paper's overrides: "if title: extraction.title = title", ...
Override(e, title, authors, abstract) ==
    [e EXCEPT !.title    = IF title # <<>> THEN title ELSE @,
              !.authors  = IF authors # <<>> THEN authors ELSE @,
              !.abstract = IF abstract # 0 THEN abstract ELSE @]

\* ----------------------------------------------------------------- slugs
UpperCase == <<"A", "B", "C", "D", "E", "F", "G", "H", "I", "J", "K", "L", "M",
               "N", "O", "P", "Q", "R", "S", "T", "U", "V", "W", "X", "Y", "Z">>
LowerCase == <<"a", "b", "c", "d", "e", "f", "g", "h", "i", "j", "k", "l", "m",
               "n", "o", "p", "q", "r", "s", "t", "u", "v", "w", "x", "y", "z">>
SlugChars == {LowerCase[i] : i \in 1..26} \cup {Digit(d) : d \in 0..9}

Lower(ch) ==
    IF \E i \in 1..26 : UpperCase[i] = ch
    THEN LowerCase[CHOOSE i \in 1..26 : UpperCase[i] = ch]
    ELSE ch

\* re.sub(r'[^a-z0-9]+', '-', slug)
RECURSIVE Hyphenate(_, _, _)
Hyphenate(s, i, inRun) ==
    IF i > Len(s) THEN <<>>
    ELSE IF s[i] \in SlugChars THEN <<s[i]>> \o Hyphenate(s, i + 1, FALSE)
    ELSE (IF inRun THEN <<>> ELSE <<"-">>) \o Hyphenate(s, i + 1, TRUE)

\* slug.strip('-')
StripHyphens(s) ==
    LET a == IF s # <<>> /\ Head(s) = "-" THEN Tail(s) ELSE s
    IN IF a # <<>> /\ a[Len(a)] = "-" THEN SubSeq(a, 1, Len(a) - 1) ELSE a

title_to_slug(title) ==
    LET lowered == [i \in 1..Len(title) |-> Lower(title[i])]
        slug == StripHyphens(Hyphenate(lowered, 1, FALSE))
    IN SubSeq(slug, 1, IF Len(slug) < 60 THEN Len(slug) ELSE 60)

\* ------------------------------------------------------------ guardrails
\* validate_submission returning at the first error it finds.
validate_submission_short_circuit(e, c, index) ==
    LET warn == IF e.authors = <<>> THEN <<"authors">> ELSE <<>>
        errors ==
            IF e.title = <<>> \/ Len(e.title) < MIN_TITLE_LENGTH THEN <<"title">>
            ELSE IF e.abstract < MIN_ABSTRACT_WORDS THEN <<"abstract">>
            ELSE IF \E i \in 1..Len(index) : index[i].hash = get_pdf_hash(c)
                 THEN <<"duplicate">>
            ELSE IF c.struct = "invalid" THEN <<"invalid">>
            ELSE IF c.struct = "nopages" THEN <<"nopages">> ELSE <<>>
    IN [valid |-> Len(errors) = 0, errors |-> errors, warnings |-> warn]

\* validate_submission: every rule is evaluated; errors in code order.
validate_submission(e, c, index) ==
    LET titleErr == IF e.title = <<>> \/ Len(e.title) < MIN_TITLE_LENGTH
                    THEN <<"title">> ELSE <<>>
        warn     == IF e.authors = <<>> THEN <<"authors">> ELSE <<>>
        absErr   == IF e.abstract < MIN_ABSTRACT_WORDS THEN <<"abstract">> ELSE <<>>
        pdf_hash == get_pdf_hash(c)
        dupErr   == IF \E i \in 1..Len(index) : index[i].hash = pdf_hash
                    THEN <<"duplicate">> ELSE <<>>
        pdfErr   == IF c.struct = "invalid" THEN <<"invalid">>
                    ELSE IF c.struct = "nopages" THEN <<"nopages">> ELSE <<>>
        errors   == titleErr \o absErr \o dupErr \o pdfErr
    IN [valid |-> Len(errors) = 0, errors |-> errors, warnings |-> warn]

NoValidation == [valid |-> FALSE, errors |-> <<>>, warnings |-> <<>>]

\* --------------------------------------------------------------- registry
\* generate_corpxiv_id: (manifest', corpxiv_id, date_str)
generate_corpxiv_id(m, t) ==
    LET seq == m.next_number
    IN [manifest |-> [m EXCEPT !.next_number = seq + 1],
        id       |-> FormatId(strftime_yymm(t), seq),
        date     |-> t]

\* get_corpxiv_id without the lookup of lines 64-66: every call mints.
get_corpxiv_id_always_mints(m, key, t) ==
    LET seq == m.next_number
        corpxiv_id == FormatId(strftime_yymm(t), seq)
        entry == [id |-> corpxiv_id, category |-> key.category,
                  submitted |-> t, filename |-> key.filename]
    IN [manifest |->
            [next_number |-> seq + 1,
             papers |-> [k \in DOMAIN m.papers \cup {key} |->
                            IF k = key THEN entry ELSE m.papers[k]]],
        id |-> corpxiv_id, date |-> t, isNew |-> TRUE]

\* get_corpxiv_id without line 82: next_number is not advanced.
get_corpxiv_id_no_increment(m, key, t) ==
    IF key \in DOMAIN m.papers
    THEN [manifest |-> m, id |-> m.papers[key].id,
          date |-> m.papers[key].submitted, isNew |-> FALSE]
    ELSE LET seq == m.next_number
             corpxiv_id == FormatId(strftime_yymm(t), seq)
             entry == [id |-> corpxiv_id, category |-> key.category,
                       submitted |-> t, filename |-> key.filename]
         IN [manifest |->
                 [next_number |-> seq,
                  papers |-> [k \in DOMAIN m.papers \cup {key} |->
                                 IF k = key THEN entry ELSE m.papers[k]]],
             id |-> corpxiv_id, date |-> t, isNew |-> TRUE]

\* get_corpxiv_id: a key already registered is looked up; a new key takes
\* next_number and is registered.
get_corpxiv_id(m, key, t) ==
    IF key \in DOMAIN m.papers
    THEN [manifest |-> m, id |-> m.papers[key].id,
          date |-> m.papers[key].submitted, isNew |-> FALSE]
    ELSE LET seq == m.next_number
             corpxiv_id == FormatId(strftime_yymm(t), seq)
             entry == [id |-> corpxiv_id, category |-> key.category,
                       submitted |-> t, filename |-> key.filename]
         IN [manifest |->
                 [next_number |-> seq + 1,
                  papers |-> [k \in DOMAIN m.papers \cup {key} |->
                                 IF k = key THEN entry ELSE m.papers[k]]],
             id |-> corpxiv_id, date |-> t, isNew |-> TRUE]


\* ------------------------------------------------------------- artifacts
NoMint == [id |-> FormatId(0, 0), date |-> Today(0), slug |-> <<>>]

Stamp(id, cat, date) == [id |-> id, category |-> cat, date |-> date]

\* generate_landing_page: writes papers/<category>/<slug>/index.html,
\* replacing the page already there.
generate_landing_page(pages, id, title, cat, slug) ==
    LET dir == [category |-> cat, slug |-> slug]
    IN {p \in pages : p.dir # dir} \cup {[dir |-> dir, id |-> id, title |-> title]}

\* add_to_papers_yaml: the index as read from disk with the new entry
\* inserted first.
IndexEntry(id, e, date, cat, slug, pdf_hash) ==
    [id |-> id, title |-> e.title, authors |-> e.authors, date |-> date,
     category |-> cat, slug |-> slug, abstract |-> e.abstract,
     pdf |-> slug \o <<".", "p", "d", "f">>, hash |-> pdf_hash]

add_to_papers_yaml(index, entry) == <<entry>> \o index

NoSitemap == [exists |-> FALSE, today |-> Today(0), urls |-> <<>>]

\* generate_sitemap: the home page and one URL per entry of papers.yml.
generate_sitemap(index, t) ==
    [exists |-> TRUE, today |-> t,
     urls |-> [i \in 1..Len(index) |->
                  [category |-> index[i].category, slug |-> index[i].slug,
                   lastmod |-> index[i].date]]]

\* --------------------------------------------------------------- results
NoResult == [by |-> "none", status |-> "none", at |-> "", errors |-> <<>>,
             warnings |-> <<>>, id |-> FormatId(0, 0)]
\* process_paper's two return statements
ErrorResult(v) == [by |-> "process_paper", status |-> "error", at |-> "",
                   errors |-> v.errors, warnings |-> v.warnings,
                   id |-> FormatId(0, 0)]
SuccessResult(id, v) == [by |-> "process_paper", status |-> "success", at |-> "",
                         errors |-> <<>>, warnings |-> v.warnings, id |-> id]
\* No result: an exception leaves the driver; its traceback names the step.
Escaped(driver, step) ==
    [NoResult EXCEPT !.by = driver, !.status = "exception", !.at = step]
\* main returns after the loop and save_manifest
Done == [NoResult EXCEPT !.by = "main", !.status = "done"]
\* main prints "No PDFs to stamp" and returns
NoPdfs == [NoResult EXCEPT !.by = "main", !.status = "no_pdfs"]

\* ------------------------------------------------------------------ Init
Init ==
    /\ now = 0
    /\ manifestFile = AbsentFile
    /\ papersYaml = <<>>
    /\ sitemap = NoSitemap
    /\ landing = {}
    /\ upload = NoUpload
    /\ repoStamps = [k \in Keys |-> {}]
    /\ readme = {}
    /\ pc = "idle"
    /\ manifest = DefaultManifest
    /\ papers = <<>>
    /\ extraction = EmptyExtraction
    /\ validation = NoValidation
    /\ category = "cs"
    /\ minted = NoMint
    /\ indexBuf = <<>>
    /\ todo = <<>>
    /\ calls = <<>>
    /\ result = NoResult
    /\ runs = 0
    /\ disk0 = <<AbsentFile, <<>>, NoSitemap, {}, NoUpload, [k \in Keys |-> {}], {}>>
    /\ mintLog = <<>>

\* The driver's memory is gone when its process ends.
ForgetMem ==
    /\ manifest' = DefaultManifest
    /\ papers' = <<>>
    /\ extraction' = EmptyExtraction
    /\ validation' = NoValidation
    /\ category' = "cs"
    /\ minted' = NoMint
    /\ indexBuf' = <<>>
    /\ todo' = <<>>
    /\ calls' = <<>>

\* ----------------------------------------------------------- environment
\* A day passes between runs.
Tick ==
    /\ pc = "idle"
    /\ now + 1 \in Days
    /\ now' = now + 1
    /\ UNCHANGED <<disk, mem, pc, result, runs, mintLog, disk0>>

\* The caller puts a PDF at the path it will hand to process_paper.
Submit(d, st) ==
    /\ pc = "idle"
    /\ runs < MaxRuns
    /\ upload' = Content(d, st)
    /\ result' = NoResult
    /\ UNCHANGED <<now, manifestFile, papersYaml, sitemap, landing, repoStamps,
                   readme, mem, pc, runs, mintLog, disk0>>

\* ---------------------------------------------------------- process_paper
ShortTitle == <<"D", "r", "a", "f", "t">>
OverrideTitles == {<<>>, ShortTitle}
OverrideAuthors == {<<>>}
OverrideAbstracts == {0, 10}

\* process_paper, lines 605-616: extract, then apply the overrides.
PP_Extract(cat, title, authors, abstract) ==
    /\ pc = "idle"
    /\ runs < MaxRuns
    /\ upload # NoUpload
    /\ runs' = runs + 1
    /\ disk0' = disk
    /\ category' = cat
    /\ extraction' = Override(extract_metadata(upload), title, authors, abstract)
    /\ result' = NoResult
    /\ pc' = "pp_load"
    /\ UNCHANGED <<now, disk, manifest, papers, validation, minted, indexBuf,
                   todo, calls, mintLog>>

\* lines 619-620: json.load raises on an unparsable registry and the
\* exception leaves process_paper.
PP_Load ==
    /\ pc = "pp_load"
    /\ IF load_manifest_raises
       THEN /\ pc' = "idle"
            /\ result' = Escaped("process_paper", "pp_load")
            /\ ForgetMem
       ELSE /\ papers' = load_papers_yaml
            /\ manifest' = load_manifest
            /\ pc' = "pp_validate"
            /\ UNCHANGED <<extraction, validation, category, minted, indexBuf,
                           todo, calls, result>>
    /\ UNCHANGED <<now, disk, runs, mintLog, disk0>>

\* process_paper without the return of lines 625-631.
PP_Validate_no_return ==
    /\ pc = "pp_validate"
    /\ validation' = validate_submission(extraction, upload, papers)
    /\ pc' = "pp_mint"
    /\ UNCHANGED <<now, disk, manifest, papers, extraction, category, minted,
                   indexBuf, todo, calls, result, runs, mintLog, disk0>>

\* lines 623-631
PP_Validate ==
    /\ pc = "pp_validate"
    /\ LET v == validate_submission(extraction, upload, papers)
       IN IF v.valid
          THEN /\ validation' = v
               /\ pc' = "pp_mint"
               /\ UNCHANGED <<manifest, papers, extraction, category, minted,
                              indexBuf, todo, calls, result>>
          ELSE /\ pc' = "idle"
               /\ result' = ErrorResult(v)
               /\ ForgetMem
    /\ UNCHANGED <<now, disk, runs, mintLog, disk0>>

\* lines 634-635
PP_Mint ==
    /\ pc = "pp_mint"
    /\ LET g == generate_corpxiv_id(manifest, Today(now))
       IN /\ manifest' = g.manifest
          /\ minted' = [id |-> g.id, date |-> g.date,
                        slug |-> title_to_slug(extraction.title)]
          /\ mintLog' = Append(mintLog, g.id)
    /\ pc' = "pp_stamp"
    /\ UNCHANGED <<now, disk, papers, extraction, validation, category, indexBuf,
                   todo, calls, result, runs, disk0>>

\* process_paper stamping before generate_corpxiv_id has run.
PP_Stamp_before_mint ==
    /\ pc = "pp_mint"
    /\ upload' = [upload EXCEPT
                     !.stamps = Append(@, Stamp(minted.id, category, minted.date))]
    /\ pc' = "pp_landing"
    /\ UNCHANGED <<now, manifestFile, papersYaml, sitemap, landing, repoStamps,
                   readme, mem, result, runs, mintLog, disk0>>

\* line 638: stamp_pdf rewrites the file in place.
PP_Stamp ==
    /\ pc = "pp_stamp"
    /\ upload' = [upload EXCEPT
                     !.stamps = Append(@, Stamp(minted.id, category, minted.date))]
    /\ pc' = "pp_landing"
    /\ UNCHANGED <<now, manifestFile, papersYaml, sitemap, landing, repoStamps,
                   readme, mem, result, runs, mintLog, disk0>>

\* lines 641-654
PP_Landing ==
    /\ pc = "pp_landing"
    /\ landing' = generate_landing_page(landing, minted.id, extraction.title,
                                        category, minted.slug)
    /\ pc' = "pp_index"
    /\ UNCHANGED <<now, manifestFile, papersYaml, sitemap, upload, repoStamps,
                   readme, mem, result, runs, mintLog, disk0>>

\* lines 657-668, to save_papers_yaml's open(..., 'w'): the index is read
\* again from disk, the entry inserted, and the file truncated.
PP_IndexOpen ==
    /\ pc = "pp_index"
    /\ indexBuf' = add_to_papers_yaml(load_papers_yaml,
                       IndexEntry(minted.id, extraction, minted.date, category,
                                  minted.slug, get_pdf_hash(upload)))
    /\ papersYaml' = <<>>
    /\ pc' = "pp_index_dump"
    /\ UNCHANGED <<now, manifestFile, sitemap, landing, upload, repoStamps, readme,
                   manifest, papers, extraction, validation, category, minted,
                   todo, calls, result, runs, mintLog, disk0>>

\* save_papers_yaml's yaml.dump
PP_IndexDump ==
    /\ pc = "pp_index_dump"
    /\ papersYaml' = indexBuf
    /\ pc' = "pp_save"
    /\ UNCHANGED <<now, manifestFile, sitemap, landing, upload, repoStamps, readme,
                   mem, result, runs, mintLog, disk0>>

\* line 671, save_manifest's open(MANIFEST_PATH, 'w')
PP_SaveOpen ==
    /\ pc = "pp_save"
    /\ manifestFile' = TruncatedFile
    /\ pc' = "pp_save_dump"
    /\ UNCHANGED <<now, papersYaml, sitemap, landing, upload, repoStamps, readme,
                   mem, result, runs, mintLog, disk0>>

\* save_manifest's json.dump
PP_SaveDump ==
    /\ pc = "pp_save_dump"
    /\ manifestFile' = OkFile(manifest)
    /\ pc' = "pp_sitemap"
    /\ UNCHANGED <<now, papersYaml, sitemap, landing, upload, repoStamps, readme,
                   mem, result, runs, mintLog, disk0>>

\* lines 674-686: regenerate the sitemap and return the result.
PP_Sitemap ==
    /\ pc = "pp_sitemap"
    /\ sitemap' = generate_sitemap(load_papers_yaml, Today(now))
    /\ result' = SuccessResult(minted.id, validation)
    /\ pc' = "idle"
    /\ ForgetMem
    /\ UNCHANGED <<now, manifestFile, papersYaml, landing, upload, repoStamps,
                   readme, runs, mintLog, disk0>>

\* The step process_paper is about to take raises (an I/O error, a PDF the
\* writer cannot handle) or the process is killed: nothing in process_paper
\* catches it.
PP_FailPoints == {"pp_stamp", "pp_landing", "pp_index", "pp_index_dump",
                  "pp_save", "pp_save_dump", "pp_sitemap"}

PP_Raise ==
    /\ pc \in PP_FailPoints
    /\ pc' = "idle"
    /\ result' = Escaped("process_paper", pc)
    /\ ForgetMem
    /\ UNCHANGED <<now, disk, runs, mintLog, disk0>>


\* ------------------------------------------------------ stamp_pdf.py main
ArgLists == UNION {[1..n -> Keys] : n \in 0..MaxArgs}

\* What happens to one argument of the loop, lines 201-207:
\*   skip        the filter of line 203 is false (no such file, not a .pdf)
\*   unreadable  stamp_pdf raises before get_corpxiv_id (pypdf cannot open
\*               the file or finds no first page)
\*   stampfail   get_corpxiv_id returns and a later line raises before the
\*               file is rewritten
\*   ok          stamp_pdf returns: the file is stamped and listed in README
FileOutcomes == {"skip", "unreadable", "stampfail", "ok"}

\* lines 195-199
ST_Start(argv) ==
    /\ pc = "idle"
    /\ runs < MaxRuns
    /\ runs' = runs + 1
    /\ disk0' = disk
    /\ IF argv = <<>>
       THEN /\ result' = NoPdfs
            /\ UNCHANGED <<pc, mem>>
       ELSE IF load_manifest_raises
       THEN /\ result' = Escaped("main", "st_load")
            /\ UNCHANGED <<pc, mem>>
       ELSE /\ manifest' = load_manifest
            /\ todo' = argv
            /\ pc' = "st_loop"
            /\ result' = NoResult
            /\ UNCHANGED <<papers, extraction, validation, category, minted,
                           indexBuf, calls>>
    /\ UNCHANGED <<now, disk, mintLog>>

\* main without the try/except of lines 204-207: an error in one file ends
\* the loop.
ST_File_abort(outcome) ==
    /\ pc = "st_loop"
    /\ todo # <<>>
    /\ LET key == Head(todo)
           g == get_corpxiv_id(manifest, key, Today(now))
           called == outcome \notin {"skip", "unreadable"}
           written == outcome = "ok"
       IN /\ manifest' = IF called THEN g.manifest ELSE manifest
          /\ calls' = IF called
                      THEN Append(calls, [key |-> key, id |-> g.id, date |-> g.date,
                                          isNew |-> g.isNew])
                      ELSE calls
          /\ mintLog' = IF called /\ g.isNew
                        THEN Append(mintLog, g.id)
                        ELSE mintLog
          /\ repoStamps' = IF written
                           THEN [repoStamps EXCEPT
                                    ![key] = @ \cup {Stamp(g.id, key.category, g.date)}]
                           ELSE repoStamps
          /\ readme' = IF written THEN readme \cup {key} ELSE readme
    /\ todo' = IF outcome \in {"unreadable", "stampfail"} THEN <<>> ELSE Tail(todo)
    /\ UNCHANGED <<now, manifestFile, papersYaml, sitemap, landing, upload, pc,
                   papers, extraction, validation, category, minted, indexBuf,
                   result, runs, disk0>>

\* One iteration of the loop: stamp_pdf under try/except Exception.
ST_File(outcome) ==
    /\ pc = "st_loop"
    /\ todo # <<>>
    /\ LET key == Head(todo)
           g == get_corpxiv_id(manifest, key, Today(now))
           called == outcome \notin {"skip", "unreadable"}
           written == outcome = "ok"
       IN /\ manifest' = IF called THEN g.manifest ELSE manifest
          /\ calls' = IF called
                      THEN Append(calls, [key |-> key, id |-> g.id, date |-> g.date,
                                          isNew |-> g.isNew])
                      ELSE calls
          /\ mintLog' = IF called /\ g.isNew
                        THEN Append(mintLog, g.id)
                        ELSE mintLog
          /\ repoStamps' = IF written
                           THEN [repoStamps EXCEPT
                                    ![key] = @ \cup {Stamp(g.id, key.category, g.date)}]
                           ELSE repoStamps
          /\ readme' = IF written THEN readme \cup {key} ELSE readme
    /\ todo' = Tail(todo)
    /\ UNCHANGED <<now, manifestFile, papersYaml, sitemap, landing, upload, pc,
                   papers, extraction, validation, category, minted, indexBuf,
                   result, runs, disk0>>

\* line 209, save_manifest's open(MANIFEST_PATH, 'w')
ST_SaveOpen ==
    /\ pc = "st_loop"
    /\ todo = <<>>
    /\ manifestFile' = TruncatedFile
    /\ pc' = "st_save_dump"
    /\ UNCHANGED <<now, papersYaml, sitemap, landing, upload, repoStamps, readme,
                   mem, result, runs, mintLog, disk0>>

\* save_manifest's json.dump
ST_SaveDump ==
    /\ pc = "st_save_dump"
    /\ manifestFile' = OkFile(manifest)
    /\ pc' = "idle"
    /\ result' = Done
    /\ ForgetMem
    /\ UNCHANGED <<now, papersYaml, sitemap, landing, upload, repoStamps, readme,
                   runs, mintLog, disk0>>

\* save_manifest raises (or the process is killed) before or during the
\* write: main has no handler around it.
ST_Raise ==
    /\ \/ pc = "st_loop" /\ todo = <<>>
       \/ pc = "st_save_dump"
    /\ pc' = "idle"
    /\ result' = Escaped("main", IF pc = "st_loop" THEN "st_save" ELSE pc)
    /\ ForgetMem
    /\ UNCHANGED <<now, disk, runs, mintLog, disk0>>

\* ------------------------------------------------------------------ Next
Next ==
    \/ Tick
    \/ \E d \in Docs, st \in Structs : Submit(d, st)
    \/ \E cat \in Categories, t \in OverrideTitles, a \in OverrideAuthors,
          b \in OverrideAbstracts : PP_Extract(cat, t, a, b)
    \/ PP_Load
    \/ PP_Validate
    \/ PP_Mint
    \/ PP_Stamp
    \/ PP_Landing
    \/ PP_IndexOpen
    \/ PP_IndexDump
    \/ PP_SaveOpen
    \/ PP_SaveDump
    \/ PP_Sitemap
    \/ PP_Raise
    \/ \E argv \in ArgLists : ST_Start(argv)
    \/ \E o \in FileOutcomes : ST_File(o)
    \/ ST_SaveOpen
    \/ ST_SaveDump
    \/ ST_Raise

Spec == Init /\ [][Next]_vars

\* ------------------------------------------------- process_paper runs alone
\* Serialized process_paper runs, each on the PDF its caller submitted.
NextPaper ==
    \/ Tick
    \/ \E d \in Docs, st \in Structs : Submit(d, st)
    \/ \E cat \in Categories, t \in OverrideTitles, a \in OverrideAuthors,
          b \in OverrideAbstracts : PP_Extract(cat, t, a, b)
    \/ PP_Load
    \/ PP_Validate
    \/ PP_Mint
    \/ PP_Stamp
    \/ PP_Landing
    \/ PP_IndexOpen
    \/ PP_IndexDump
    \/ PP_SaveOpen
    \/ PP_SaveDump
    \/ PP_Sitemap
    \/ PP_Raise

SpecPaper == Init /\ [][NextPaper]_vars


\* ------------------------------------------------- validate_submission alone
\* validate_submission applied once to every combination of sample inputs.
MkTitle(n) == [i \in 1..n |-> "x"]
SampleTitles == {MkTitle(n) : n \in {0, 5, MIN_TITLE_LENGTH - 1, MIN_TITLE_LENGTH,
                                     MIN_TITLE_LENGTH + 1}}
SampleAuthors == {<<>>, <<"Ada Lovelace">>}
SampleAbstracts == {0, 10, MIN_ABSTRACT_WORDS - 1, MIN_ABSTRACT_WORDS, 200}

SampleEntry(h) ==
    IndexEntry(FormatId(2501, 1), EmptyExtraction, Today(0), "cs", <<"p">>, h)

\* Indexes without the hash of c, with it last, and with it twice.
SampleIndexes(c) ==
    LET other == SampleEntry(<<"sha256", 0, "ok", <<>>>>)
        same == SampleEntry(get_pdf_hash(c))
    IN {<<>>, <<other>>, <<other, same>>, <<same, same>>}

InitValidate ==
    /\ now = 0
    /\ manifestFile = AbsentFile
    /\ papersYaml = <<>>
    /\ sitemap = NoSitemap
    /\ landing = {}
    /\ upload \in {Content(d, st) : d \in Docs, st \in Structs}
    /\ repoStamps = [k \in Keys |-> {}]
    /\ readme = {}
    /\ pc = "v_ready"
    /\ manifest = DefaultManifest
    /\ papers \in SampleIndexes(upload)
    /\ extraction \in {[EmptyExtraction EXCEPT !.title = t, !.authors = a,
                                              !.abstract = b] :
                          t \in SampleTitles, a \in SampleAuthors,
                          b \in SampleAbstracts}
    /\ validation = NoValidation
    /\ category = "cs"
    /\ minted = NoMint
    /\ indexBuf = <<>>
    /\ todo = <<>>
    /\ calls = <<>>
    /\ result = NoResult
    /\ runs = 0
    /\ disk0 = disk
    /\ mintLog = <<>>

V_Validate ==
    /\ pc = "v_ready"
    /\ validation' = validate_submission(extraction, upload, papers)
    /\ pc' = "v_done"
    /\ UNCHANGED <<now, disk, manifest, papers, extraction, category, minted,
                   indexBuf, todo, calls, result, runs, disk0, mintLog>>

NextValidate == V_Validate

SpecValidate == InitValidate /\ [][NextValidate]_vars

\* ================================================================ claims
\* The registry the running driver loaded when it started.
LoadedAtStart == IF disk0[1].st = "ok" THEN disk0[1].data ELSE DefaultManifest

NewCallsOf(cs) == SelectSeq(cs, LAMBDA c : c.isNew)

InStampRun == pc \in {"st_loop", "st_save_dump"}

\* C1: a get_corpxiv_id call for a key that is already in manifest['papers']
\* returns the stored identifier and the stored submitted date and leaves
\* next_number and every entry unchanged; so of two calls with the same key
\* in one run the second returns the first's identifier and mints nothing.
C1_IdempotentLookup ==
    [][ /\ (pc = "st_loop" /\ Len(calls') = Len(calls) + 1
              /\ Head(todo) \in DOMAIN manifest.papers)
           => LET r == calls'[Len(calls')]
                  e == manifest.papers[Head(todo)]
              IN r.id = e.id /\ r.date = e.submitted /\ ~r.isNew
                 /\ manifest' = manifest
        /\ \A i, j \in 1..Len(calls') :
              (i < j /\ calls'[i].key = calls'[j].key)
              => calls'[j].id = calls'[i].id /\ ~calls'[j].isNew
      ]_vars

\* C1 witness: a file registered by an earlier run is named twice in a run
\* on a later day; both calls are lookups and return the stored date.
C1_Witness ==
    /\ Len(calls) = 2
    /\ calls[1].key = calls[2].key
    /\ ~calls[1].isNew /\ ~calls[2].isNew
    /\ calls[2].date # Today(now)

\* C2: the new keys resolved in a run take consecutive sequence numbers in
\* call order, starting at the next_number the run loaded (1, 2, ..., N on a
\* fresh registry), each mint takes next_number and advances it by one, and
\* next_number never decreases, in memory or on disk.
C2_StrictMonotonicity ==
    [][ /\ InStampRun'
           => /\ \A k \in 1..Len(NewCallsOf(calls')) :
                    NewCallsOf(calls')[k].id.seq = LoadedAtStart'.next_number + k - 1
              /\ manifest'.next_number
                    = LoadedAtStart'.next_number + Len(NewCallsOf(calls'))
        /\ (InStampRun' /\ LoadedAtStart' = DefaultManifest)
           => \A k \in 1..Len(NewCallsOf(calls')) : NewCallsOf(calls')[k].id.seq = k
        /\ (pc = "pp_mint")
           => /\ minted'.id.seq = manifest.next_number
              /\ manifest'.next_number = manifest.next_number + 1
        /\ (pc # "idle" /\ pc' # "idle")
           => manifest'.next_number >= manifest.next_number
        /\ (manifestFile'.st = "ok" /\ disk0'[1].st = "ok")
           => manifestFile'.data.next_number >= disk0'[1].data.next_number
      ]_vars

\* C2 witness: two distinct new keys resolved against a fresh registry.
C2_Witness ==
    /\ InStampRun
    /\ LoadedAtStart = DefaultManifest
    /\ Len(calls) = 2
    /\ calls[1].isNew /\ calls[2].isNew
    /\ calls[1].id.seq = 1 /\ calls[2].id.seq = 2


PublishedOnce(index) ==
    \A i, j \in 1..Len(index) :
        (index[i].category = index[j].category /\ index[i].slug = index[j].slug)
        => i = j

\* C3: over completed runs (every mint persisted), two runs over the same
\* submission slot papers/<category>/<slug> yield the same identifier, and no
\* run changes the identifier or the submitted date of a registered key.
C3_CrossRunStability ==
    (pc = "idle" /\ manifestFile.st = "ok"
        /\ manifestFile.data.next_number = Len(mintLog) + 1)
    => /\ \A i, j \in 1..Len(papersYaml) :
             (papersYaml[i].category = papersYaml[j].category
                /\ papersYaml[i].slug = papersYaml[j].slug)
             => papersYaml[i].id = papersYaml[j].id
       /\ \A k \in DOMAIN LoadedAtStart.papers :
             /\ k \in DOMAIN manifestFile.data.papers
             /\ manifestFile.data.papers[k].id = LoadedAtStart.papers[k].id
             /\ manifestFile.data.papers[k].submitted = LoadedAtStart.papers[k].submitted

\* C4: a run that validation rejects returns status 'error' with its errors
\* and leaves the registry, the index, the PDF, the landing pages and the
\* sitemap as they were when it started; only a valid submission reaches
\* generate_corpxiv_id and the steps after it.
C4_RejectConsumesNothing ==
    /\ (result.by = "process_paper" /\ result.status = "error")
       => disk = disk0 /\ result.errors # <<>>
    /\ pc \in PP_FailPoints \cup {"pp_mint"}
       => validation.valid /\ validation.errors = <<>>

\* C4 witness: a submission with a 10-word abstract is rejected against a
\* registry that has already assigned numbers.
C4_Witness ==
    /\ result.by = "process_paper" /\ result.status = "error"
    /\ result.errors = <<"abstract">>
    /\ manifestFile.st = "ok" /\ manifestFile.data.next_number > 1

\* The steps of process_paper that follow the mint and are not the registry
\* write itself: stamping, the landing page, the index update, the sitemap.
DownstreamSteps == {"pp_stamp", "pp_landing", "pp_index", "pp_index_dump",
                    "pp_sitemap"}

\* C5: when a run ends because a step after the mint failed (process_paper)
\* or after stamping errors it caught (main), the persisted registry covers
\* every identifier minted so far, so that no later run mints one again.
C5_MintPersisted ==
    (pc = "idle"
       /\ \/ result.status = "done"
          \/ result.status = "exception" /\ result.at \in DownstreamSteps)
    => \A i \in 1..Len(mintLog) :
          manifestFile.st = "ok" /\ mintLog[i].seq < manifestFile.data.next_number

\* C6: when no run is active (it returned, raised or was killed), the registry
\* file is the file the run found or a complete new one.
C6_AtomicPersist ==
    pc = "idle" => (manifestFile = disk0[1] \/ manifestFile.st = "ok")

\* C7: a missing registry loads as {next_number: 1, papers: {}} without an
\* error; an unparsable registry ends the run with an exception at the load,
\* with no identifier minted and nothing written.
C7_LoadMissingOrCorrupt ==
    [][ /\ (pc = "pp_load" /\ manifestFile.st = "absent")
           => pc' = "pp_validate"
              /\ manifest' = [next_number |-> 1, papers |-> NoPapers]
        /\ (pc = "idle" /\ pc' = "st_loop" /\ manifestFile.st = "absent")
           => manifest' = [next_number |-> 1, papers |-> NoPapers]
        /\ (runs' = runs + 1 /\ manifestFile.st = "absent")
           => result'.status # "exception"
        /\ (pc = "pp_load" /\ manifestFile.st = "truncated")
           => pc' = "idle" /\ result'.status = "exception"
              /\ disk' = disk0 /\ mintLog' = mintLog
        /\ (runs' = runs + 1 /\ pc' # "pp_load" /\ result'.status # "no_pdfs"
              /\ manifestFile.st = "truncated")
           => pc' = "idle" /\ result'.status = "exception"
              /\ disk' = disk /\ mintLog' = mintLog
      ]_vars

\* C7 witness: a run started on a truncated registry has ended with an
\* exception.
C7_Witness ==
    /\ pc = "idle"
    /\ result.status = "exception"
    /\ disk0[1].st = "truncated"
    /\ manifestFile.st = "truncated"
    /\ runs = 2

\* C8: process_paper always hands its caller a result (status 'error' or
\* 'success'), and a run on a document that cannot be opened or has no page
\* leaves the persisted state as it found it.
C8_StructuredResult ==
    result.by = "process_paper"
    => /\ result.status \in {"error", "success"}
       /\ (\E i \in 1..Len(result.errors) : result.errors[i] \in {"invalid", "nopages"})
          => disk = disk0

CountOf(errs, x) == Cardinality({i \in 1..Len(errs) : errs[i] = x})

HashMatches == \E i \in 1..Len(papers) : papers[i].hash = get_pdf_hash(upload)

\* C9: validate_submission reports every violated rule exactly once and
\* nothing else: a title under 10 characters, an abstract under 50 words, a
\* hash equal to an index entry's, a document that cannot be opened or has no
\* page; no authors gives one warning and no error; valid is true exactly
\* when there is no error. Title length 5, no authors and 200 words give one
\* error, one warning and valid = false.
C9_GuardrailComposition ==
    pc = "v_done"
    => LET errs == validation.errors
       IN /\ CountOf(errs, "title") = IF Len(extraction.title) < 10 THEN 1 ELSE 0
          /\ CountOf(errs, "abstract") = IF extraction.abstract < 50 THEN 1 ELSE 0
          /\ CountOf(errs, "duplicate") = IF HashMatches THEN 1 ELSE 0
          /\ CountOf(errs, "invalid") = IF upload.struct = "invalid" THEN 1 ELSE 0
          /\ CountOf(errs, "nopages") = IF upload.struct = "nopages" THEN 1 ELSE 0
          /\ \A i \in 1..Len(errs) :
                errs[i] \in {"title", "abstract", "duplicate", "invalid", "nopages"}
          /\ validation.warnings
                = IF extraction.authors = <<>> THEN <<"authors">> ELSE <<>>
          /\ validation.valid <=> errs = <<>>
          /\ (Len(extraction.title) = 5 /\ extraction.authors = <<>>
                /\ extraction.abstract = 200 /\ ~HashMatches /\ upload.struct = "ok")
             => /\ errs = <<"title">>
                /\ validation.warnings = <<"authors">>
                /\ ~validation.valid

\* C9 witness: a 5-character title and a hash match on a document without
\* pages, with authors and a 200-word abstract: three errors, no warning.
C9_Witness ==
    /\ pc = "v_done"
    /\ Len(extraction.title) = 5
    /\ extraction.authors # <<>>
    /\ extraction.abstract = 200
    /\ validation.errors = <<"title", "duplicate", "nopages">>
    /\ validation.warnings = <<>>
    /\ ~validation.valid

\* C10: the index holds one entry, and the sitemap one URL, for each
\* published paper papers/<category>/<slug>, however often its index update
\* and sitemap regeneration ran.
C10_IdempotentRebuild ==
    /\ PublishedOnce(papersYaml)
    /\ PublishedOnce(sitemap.urls)

\* The markers the specification allows beside an absent field.
AbsenceMarkers == {"parsed", "not_found"}

\* C11: extract_metadata always returns a record to process_paper, and in
\* the record each of title, authors and abstract that is absent (empty
\* string, empty list) has a confidence marker 'parsed' or 'not_found'.
C11_ExtractionMarksConfidence ==
    pc = "pp_load"
    => /\ extraction.title = <<>>
          => extraction.confidence.title \in AbsenceMarkers
       /\ extraction.authors = <<>>
          => extraction.confidence.authors \in AbsenceMarkers
       /\ extraction.abstract = 0
          => extraction.confidence.abstract \in AbsenceMarkers

\* process_paper's steps in program order.
PipelineOrder == <<"pp_load", "pp_validate", "pp_mint", "pp_stamp", "pp_landing",
                   "pp_index", "pp_index_dump", "pp_save", "pp_save_dump",
                   "pp_sitemap">>
PipelineSteps == {PipelineOrder[i] : i \in 1..Len(PipelineOrder)}
RankOf(p) == CHOOSE i \in 1..Len(PipelineOrder) : PipelineOrder[i] = p
AfterMint == {p \in PipelineSteps : RankOf(p) > RankOf("pp_mint")}

\* C12: a process_paper run starts with extraction and only moves to the
\* next step of the order load, validate, mint, stamp, landing page, index,
\* registry, sitemap; the extraction is fixed before validation, only a valid
\* submission is given an identifier, every artifact is written after the
\* mint and carries the identifier minted in this run (in stamp_pdf.py: the
\* identifier get_corpxiv_id returned for this file in this run), and a run
\* that returned 'error' or 'success' takes no further step.
C12_LinearPipeline ==
    [][ /\ (pc \in PipelineSteps /\ pc' \in PipelineSteps)
           => RankOf(pc') = RankOf(pc) + 1 /\ extraction' = extraction
        /\ (pc = "idle" /\ pc' \in PipelineSteps)
           => pc' = "pp_load" /\ runs' = runs + 1
        /\ (validation' # validation /\ pc' # "idle") => pc = "pp_validate"
        /\ (mintLog' # mintLog /\ pc \in PipelineSteps)
           => /\ pc = "pp_mint" /\ validation.valid
              /\ minted'.id = mintLog'[Len(mintLog')]
        /\ pc' \in AfterMint
           => /\ Len(mintLog') >= 1
              /\ minted'.id = mintLog'[Len(mintLog')]
        /\ (upload' # upload /\ pc # "idle")
           => /\ pc = "pp_stamp"
              /\ upload'.stamps = Append(upload.stamps,
                                         Stamp(minted.id, category, minted.date))
        /\ landing' # landing
           => /\ pc = "pp_landing"
              /\ \E p \in landing' : p.id = minted.id /\ p.dir.slug = minted.slug
        /\ papersYaml' # papersYaml
           => /\ pc \in {"pp_index", "pp_index_dump"}
              /\ papersYaml' # <<>> => Head(papersYaml').id = minted.id
        /\ sitemap' # sitemap => pc = "pp_sitemap"
        /\ repoStamps' # repoStamps
           => /\ pc = "st_loop"
              /\ Len(calls') = Len(calls) + 1
              /\ LET c == calls'[Len(calls')]
                 IN /\ c.key = Head(todo)
                    /\ manifest'.papers[c.key].id = c.id
                    /\ repoStamps'[c.key]
                          = repoStamps[c.key] \cup {Stamp(c.id, c.key.category, c.date)}
        /\ result'.status \in {"error", "success"}
           => pc' = "idle" /\ minted' = NoMint
      ]_vars

\* C12 witness: the second publication has completed: the PDF, the landing
\* page and the first index entry carry the identifier the run returned.
C12_Witness ==
    /\ pc = "idle"
    /\ result.status = "success"
    /\ result.id.seq = 2
    /\ Len(upload.stamps) >= 1
    /\ upload.stamps[Len(upload.stamps)].id = result.id
    /\ \E p \in landing : p.id = result.id
    /\ papersYaml # <<>> /\ Head(papersYaml).id = result.id
    /\ sitemap.exists

\* C13: in a stamp_pdf.py run, whatever happens to one argument (skipped,
\* unreadable, failed after its identifier was assigned, stamped), the loop
\* goes on to the next argument, the identifiers assigned so far in the run
\* and the entries of the registry stay as they are, no other file is
\* touched, and the registry file is written only after the last argument,
\* with every identifier the run assigned.
C13_BatchIsolation ==
    [][ /\ (pc = "st_loop" /\ todo # <<>>)
           => /\ pc' = "st_loop"
              /\ todo' = Tail(todo)
              /\ Len(calls') >= Len(calls)
              /\ SubSeq(calls', 1, Len(calls)) = calls
              /\ \A k \in DOMAIN manifest.papers :
                    /\ k \in DOMAIN manifest'.papers
                    /\ manifest'.papers[k] = manifest.papers[k]
              /\ \A k \in Keys \ {Head(todo)} : repoStamps'[k] = repoStamps[k]
              /\ manifestFile' = manifestFile
        /\ (InStampRun /\ manifestFile' # manifestFile) => todo = <<>>
        /\ (pc = "st_save_dump" /\ result'.status = "done")
           => /\ manifestFile' = OkFile(manifest)
              /\ \A i \in 1..Len(calls) :
                    /\ calls[i].key \in DOMAIN manifest.papers
                    /\ manifest.papers[calls[i].key].id = calls[i].id
      ]_vars

\* C13 witness: one run was given two files; stamping the first failed after
\* it was assigned number 1, the second was stamped with number 2, and the
\* registry with both was saved.
C13_Witness ==
    /\ pc = "idle"
    /\ runs = 1
    /\ result.status = "done"
    /\ manifestFile.st = "ok"
    /\ \E a, b \in DOMAIN manifestFile.data.papers :
          /\ a # b
          /\ manifestFile.data.papers[a].id.seq = 1
          /\ repoStamps[a] = {}
          /\ manifestFile.data.papers[b].id.seq = 2
          /\ repoStamps[b]
                = {Stamp(manifestFile.data.papers[b].id, b.category,
                         manifestFile.data.papers[b].submitted)}

\* C14: between process_paper runs, whether the last one returned, raised or
\* was killed, no two entries of papers.yml carry the same identifier, and
\* the registry file holds a next_number greater than the sequence number of
\* every identifier in papers.yml.
C14_IndexIdsUnique ==
    pc = "idle"
    => /\ \A i, j \in 1..Len(papersYaml) :
             papersYaml[i].id = papersYaml[j].id => i = j
       /\ papersYaml # <<>>
          => /\ manifestFile.st = "ok"
             /\ \A i \in 1..Len(papersYaml) :
                   papersYaml[i].id.seq < manifestFile.data.next_number

\* The bytes process_paper was given, when upload is the file it stamped.
BeforeStamp(c) == [c EXCEPT !.stamps = SubSeq(@, 1, Len(@) - 1)]

\* The file stamp_pdf makes of bytes c for index entry e.
StampedFor(c, e) ==
    [c EXCEPT !.stamps = Append(@, Stamp(e.id, e.category, e.date))]

\* C15: the hash a successful run stores in its index entry is the hash
\* validation computed for the submitted bytes, so a submission passes
\* validation only if no index entry was made from the same bytes.
C15_DuplicateRejected ==
    /\ (pc = "idle" /\ result.by = "process_paper" /\ result.status = "success")
       => \E i \in 1..Len(papersYaml) :
             /\ papersYaml[i].id = result.id
             /\ papersYaml[i].hash = get_pdf_hash(BeforeStamp(upload))
    /\ pc = "pp_mint"
       => ~\E i \in 1..Len(papers) :
              papers[i].hash = get_pdf_hash(StampedFor(upload, papers[i]))

====
